---- MODULE Spec2Model ----
(***************************************************************************)
(* Model of the embedded terminal of the IDE (components/ide/Terminal):    *)
(* the tab/session manager, the per-tab line editor living in the onData   *)
(* closure, the command dispatcher (executeCommand) and the mock Executor  *)
(* (FirecrackerService.executeCommand).                                    *)
(*                                                                         *)
(* Text is a sequence of one-character strings, so that trim, startsWith,  *)
(* slice and concatenation are computed, not assumed.                      *)
(***************************************************************************)
EXTENDS Integers, Sequences, FiniteSets, TLC

(***************************************************************************)
(* Bounds of the exploration (not program constants).                      *)
(***************************************************************************)
\* tabs ever created in one behaviour
MaxTabs == 1
\* tabs ever created in one behaviour of the session manager's specification
MaxManagerTabs == 3
\* non-empty submissions explored per tab (on top of the initial history)
MaxSubmit == 1
\* remote dispatches of one tab that may be in flight together
MaxPending == 1
\* Ctrl+C prompt timers of one tab that may be armed together
MaxCtrlC == 1
\* longest initial history of the history specification beyond the cap - 2
HistSlack == 2
\* tabs ever created in one behaviour of the two-session specification
MaxPairTabs == 2
\* longest initial history of the history browsing specification
MaxBrowse == 3
\* resize events of one burst, between two firings of the debounce timer
MaxBurst == 2

(***************************************************************************)
(* Program constants.                                                      *)
(***************************************************************************)
\* commandHistory = [command, ...commandHistory.slice(0, 99)]
HistoryKeep == 99

NoTab == 0

(***************************************************************************)
(* Text.                                                                   *)
(***************************************************************************)
WORKSPACE == <<"/", "w", "o", "r", "k", "s", "p", "a", "c", "e">>
sLs == <<"l", "s">>
sCd == <<"c", "d">>
sSpX == <<" ", "x">>
sSp == <<" ">>
sHelp == <<"h", "e", "l", "p">>
sDashDashHelp == <<"-", "-", "h", "e", "l", "p">>
sDashH == <<"-", "h">>
sClear == <<"c", "l", "e", "a", "r">>
sHistory == <<"h", "i", "s", "t", "o", "r", "y">>
sGit == <<"g", "i", "t">>
sNpm == <<"n", "p", "m">>
sYarn == <<"y", "a", "r", "n">>
sCdSp == <<"c", "d", " ">>
sVmNotRunning == <<"V", "M", " ", "i", "s", " ", "n", "o", "t", " ", "r", "u", "n", "n", "i", "n", "g">>

\* String.prototype.trim, over the whitespace the model types (the space)
IsSpace(c) == c = " "

RECURSIVE TrimStart(_)
TrimStart(s) ==
    IF s # <<>> /\ IsSpace(Head(s)) THEN TrimStart(Tail(s)) ELSE s

RECURSIVE TrimEnd(_)
TrimEnd(s) ==
    IF s # <<>> /\ IsSpace(s[Len(s)]) THEN TrimEnd(SubSeq(s, 1, Len(s) - 1)) ELSE s

Trim(s) == TrimEnd(TrimStart(s))

\* String.prototype.startsWith
StartsWith(s, p) == Len(p) <= Len(s) /\ SubSeq(s, 1, Len(p)) = p

\* String.prototype.includes
Includes(s, p) ==
    \E i \in 1..(Len(s) - Len(p) + 1) : SubSeq(s, i, i + Len(p) - 1) = p

\* String.prototype.substring(n)
Substring(s, n) == SubSeq(s, n + 1, Len(s))

\* String.prototype.toLowerCase
UPPER == <<"A", "B", "C", "D", "E", "F", "G", "H", "I", "J", "K", "L", "M",
           "N", "O", "P", "Q", "R", "S", "T", "U", "V", "W", "X", "Y", "Z">>
LOWER == <<"a", "b", "c", "d", "e", "f", "g", "h", "i", "j", "k", "l", "m",
           "n", "o", "p", "q", "r", "s", "t", "u", "v", "w", "x", "y", "z">>
ToLowerChar(c) ==
    IF \E i \in 1..Len(UPPER) : UPPER[i] = c
    THEN LOWER[CHOOSE i \in 1..Len(UPPER) : UPPER[i] = c]
    ELSE c
ToLowerCase(s) == [i \in 1..Len(s) |-> ToLowerChar(s[i])]

\* String.prototype.split('\n'): the pieces between the line feeds, in order
SplitLines(s) ==
    LET cuts == {0, Len(s) + 1} \cup {i \in 1..Len(s) : s[i] = "\n"}
        Cut(k) == CHOOSE c \in cuts : Cardinality({d \in cuts : d < c}) = k
    IN  [k \in 1..(Cardinality(cuts) - 1) |-> SubSeq(s, Cut(k - 1) + 1, Cut(k) - 1)]

\* Array.prototype.filter(line => line.trim())
NonBlank(ls) == SelectSeq(ls, LAMBDA line : Trim(line) # <<>>)

(***************************************************************************)
(* The mock Executor, FirecrackerService.executeCommand.                   *)
(***************************************************************************)
VmId == <<"v", "m", "1">>
outLs == <<"f", "i", "l", "e", "1", ".", "j", "s", "\n",
           "f", "i", "l", "e", "2", ".", "t", "s", "\n",
           "p", "a", "c", "k", "a", "g", "e", ".", "j", "s", "o", "n", "\n",
           "R", "E", "A", "D", "M", "E", ".", "m", "d">>
sExecuted == <<"E", "x", "e", "c", "u", "t", "e", "d", ":", " ">>
sSimulated == <<"O", "u", "t", "p", "u", "t", " ", "s", "i", "m", "u", "l", "a", "t", "e", "d", " ",
                "i", "n", " ", "F", "i", "r", "e", "c", "r", "a", "c", "k", "e", "r", " ", "V", "M", " ">>

\* outputs[command] || `Executed: ${command}\nOutput simulated in Firecracker VM ${vmId}`
MockOutput(command) ==
    IF command = sLs THEN outLs
    ELSE sExecuted \o command \o <<"\n">> \o sSimulated \o VmId

\* the messages the Executor rejects with: throw new Error('VM is not running')
ErrorMessages == {sVmNotRunning}

(***************************************************************************)
(* Output formatting of executeCommand: the colour of one output line.     *)
(***************************************************************************)
sError == <<"e", "r", "r", "o", "r">>
sFailed == <<"f", "a", "i", "l", "e", "d">>
sWarning == <<"w", "a", "r", "n", "i", "n", "g">>
sSuccess == <<"s", "u", "c", "c", "e", "s", "s">>
sDone == <<"d", "o", "n", "e">>
sArrow == <<"→">>
sFatArrow == <<"=", ">">>

\* a formatting that tests warning before error
LineColourWarningFirst(line) ==
    IF Includes(ToLowerCase(line), sWarning) THEN "yellow"
    ELSE IF Includes(ToLowerCase(line), sError) \/ Includes(ToLowerCase(line), sFailed) THEN "red"
    ELSE IF Includes(ToLowerCase(line), sSuccess) \/ Includes(ToLowerCase(line), sDone) THEN "green"
    ELSE IF Includes(line, sArrow) \/ Includes(line, sFatArrow) THEN "cyan"
    ELSE "plain"

\* a formatting that tests the arrows before success
LineColourArrowFirst(line) ==
    IF Includes(ToLowerCase(line), sError) \/ Includes(ToLowerCase(line), sFailed) THEN "red"
    ELSE IF Includes(ToLowerCase(line), sWarning) THEN "yellow"
    ELSE IF Includes(line, sArrow) \/ Includes(line, sFatArrow) THEN "cyan"
    ELSE IF Includes(ToLowerCase(line), sSuccess) \/ Includes(ToLowerCase(line), sDone) THEN "green"
    ELSE "plain"

LineColour(line) ==
    IF Includes(ToLowerCase(line), sError) \/ Includes(ToLowerCase(line), sFailed) THEN "red"
    ELSE IF Includes(ToLowerCase(line), sWarning) THEN "yellow"
    ELSE IF Includes(ToLowerCase(line), sSuccess) \/ Includes(ToLowerCase(line), sDone) THEN "green"
    ELSE IF Includes(line, sArrow) \/ Includes(line, sFatArrow) THEN "cyan"
    ELSE "plain"

\* command.includes('npm') || command.includes('git') || command.includes('yarn')
IsPaced(command) ==
    Includes(command, sNpm) \/ Includes(command, sGit) \/ Includes(command, sYarn)

(***************************************************************************)
(* State.                                                                  *)
(***************************************************************************)
VARIABLES
    mounted,           \* the Terminal component is mounted
    terminals,         \* useState<TerminalTab[]>: the tab objects, in tab order
    activeTerminalId,  \* useState<string | null>, NoTab for null
    history,           \* useState<string[]>: the component-wide history state
    memoHistory,       \* the `history` the memoized createTerminal closes over
    nextTab,           \* the next value of `tab-${Date.now()}`
    tabDir,            \* newTab.currentDirectory of each onData closure
    closureHistory,    \* the `history` each tab's executeCommand closes over
    currentLine,       \* let currentLine, per tab
    commandHistory,    \* let commandHistory, per tab
    historyPosition,   \* let historyPosition, per tab
    pending,           \* per tab: the Enter handlers suspended in executeCommand
    ctrlCTimers,       \* per tab: armed Ctrl+C prompt timers
    disposeTimers,     \* per tab: armed dispose timers of closeTerminal
    disposeCalls,      \* per tab: calls of terminal.dispose() so far
    notices,           \* per tab: closing notices written so far
    submitted,         \* per tab: every command submitted so far, the latest first
    run,               \* per tab: the printable input since the last other event
    resizeTimeout,     \* per tab: let resizeTimeout, 1 while the timer is armed
    fits,              \* per tab: the resize events and fitAddon.fit() calls of a burst
    writes,            \* what the last step wrote to the displays
    lastOp             \* the last step: operation, tab, argument

vars == <<mounted, terminals, activeTerminalId, history, memoHistory, nextTab,
          tabDir, closureHistory, currentLine, commandHistory, historyPosition,
          pending, ctrlCTimers, disposeTimers, disposeCalls, notices, submitted,
          run, resizeTimeout, fits, writes, lastOp>>


Created == 1..(nextTab - 1)
TabIdsOf(tabs) == {tabs[i].id : i \in 1..Len(tabs)}
OpenIds == TabIdsOf(terminals)

\* a write to the display of tab id: kind and text
W(id, k, t) == [id |-> id, k |-> k, t |-> t]
Prompt(id, dir) == W(id, "prompt", dir)

\* the record of a step: the operation, its tab and argument, and the tab that
\* was active before it; for an Enter also
\* whether executeCommand was called (handed), whether the Executor was called
\* (exec), and the run of printable input that preceded it (base, typed);
\* done: the onData handler of an Enter has returned in this step
Op(op, id, arg) ==
    [op |-> op, id |-> id, arg |-> arg, was |-> activeTerminalId,
     handed |-> FALSE, exec |-> FALSE, done |-> FALSE, base |-> <<>>, typed |-> <<>>]

\* no resize event has reached the listeners of a tab since its timer last fired
NoFits == [events |-> 0, calls |-> 0, disposed |-> FALSE]

\* tab titles: `Terminal ${n}` or a given text
DefaultTitle(n) == [num |-> n, text |-> <<>>]
CustomTitle(t) == [num |-> 0, text |-> t]

\* Array.prototype.filter over the tab list
RECURSIVE FilterOut(_, _)
FilterOut(tabs, id) ==
    IF tabs = <<>> THEN <<>>
    ELSE IF Head(tabs).id # id THEN <<Head(tabs)>> \o FilterOut(Tail(tabs), id)
    ELSE FilterOut(Tail(tabs), id)

Min(a, b) == IF a < b THEN a ELSE b

Init ==
    /\ mounted = TRUE
    /\ terminals = <<>>
    /\ activeTerminalId = NoTab
    /\ history = <<>>
    /\ memoHistory = <<>>
    /\ nextTab = 1
    /\ tabDir = <<>>
    /\ closureHistory = <<>>
    /\ currentLine = <<>>
    /\ commandHistory = <<>>
    /\ historyPosition = <<>>
    /\ pending = <<>>
    /\ ctrlCTimers = <<>>
    /\ disposeTimers = <<>>
    /\ disposeCalls = <<>>
    /\ notices = <<>>
    /\ submitted = <<>>
    /\ run = <<>>
    /\ resizeTimeout = <<>>
    /\ fits = <<>>
    /\ writes = <<>>
    /\ lastOp = Op("mount", NoTab, <<>>)

(***************************************************************************)
(* The session manager: createTerminal, closeTerminal, closeAllTerminals,  *)
(* renameTerminal, the tab click, the mount effect and the unmount.        *)
(***************************************************************************)

\* closeTerminal that leaves the active tab as it is
ActiveAfterCloseStale(active, tabId, newTerminals) == active

\* closeTerminal that activates the last remaining tab instead of the first
ActiveAfterCloseLast(active, tabId, newTerminals) ==
    IF active = tabId /\ Len(newTerminals) > 0 THEN newTerminals[Len(newTerminals)].id
    ELSE IF Len(newTerminals) = 0 THEN NoTab
    ELSE active

\* closeTerminal: the active tab after tabId is closed and newTerminals remain
ActiveAfterClose(active, tabId, newTerminals) ==
    IF active = tabId /\ Len(newTerminals) > 0 THEN newTerminals[1].id
    ELSE IF Len(newTerminals) = 0 THEN NoTab
    ELSE active

\* createTerminal that activates the new tab only when no tab is active
ActiveAfterCreateIfNone(active, tabId) == IF active = NoTab THEN tabId ELSE active

\* setActiveTerminalId in createTerminal
ActiveAfterCreate(active, tabId) == tabId

\* createTerminal: the new tab, its onData closure state, the welcome text
CreateTerminal(op) ==
    LET tabId == nextTab
        newTab == [id |-> tabId, title |-> DefaultTitle(Len(terminals) + 1),
                   currentDirectory |-> WORKSPACE, orig |-> TRUE]
    IN  /\ terminals' = Append(terminals, newTab)
        /\ activeTerminalId' = ActiveAfterCreate(activeTerminalId, tabId)
        /\ nextTab' = nextTab + 1
        \* terminals.length changes: the next render memoizes createTerminal anew
        /\ memoHistory' = history
        /\ closureHistory' = Append(closureHistory, memoHistory)
        /\ tabDir' = Append(tabDir, WORKSPACE)
        /\ currentLine' = Append(currentLine, <<>>)
        /\ commandHistory' = Append(commandHistory, <<>>)
        /\ historyPosition' = Append(historyPosition, -1)
        /\ pending' = Append(pending, <<>>)
        /\ ctrlCTimers' = Append(ctrlCTimers, 0)
        /\ disposeTimers' = Append(disposeTimers, 0)
        /\ disposeCalls' = Append(disposeCalls, 0)
        /\ notices' = Append(notices, 0)
        /\ submitted' = Append(submitted, <<>>)
        /\ run' = Append(run, [base |-> <<>>, typed |-> <<>>])
        /\ resizeTimeout' = Append(resizeTimeout, 0)
        /\ fits' = Append(fits, NoFits)
        /\ writes' = <<W(tabId, "welcome", <<>>), Prompt(tabId, WORKSPACE)>>
        /\ lastOp' = Op(op, tabId, <<>>)
        /\ UNCHANGED <<mounted, history>>

\* the "New Terminal" buttons
NewTerminal ==
    /\ mounted
    /\ CreateTerminal("createTerminal")

\* useEffect: if (vmId && terminals.length === 0) createTerminal()
MountEffect ==
    /\ mounted
    /\ Len(terminals) = 0
    /\ CreateTerminal("mountEffect")

\* onClick={() => setActiveTerminalId(tab.id)} of a rendered tab
SetActive(tabId) ==
    /\ mounted
    /\ tabId \in OpenIds
    /\ activeTerminalId' = tabId
    /\ writes' = <<>>
    /\ lastOp' = Op("setActive", tabId, <<>>)
    /\ UNCHANGED <<mounted, terminals, history, memoHistory, nextTab, tabDir,
                   closureHistory, currentLine, commandHistory, historyPosition,
                   pending, ctrlCTimers, disposeTimers, disposeCalls, notices,
                   submitted, run,
                   resizeTimeout, fits>>

\* closeTerminal(tabId): the state updater and what it schedules
CloseTerminal(tabId) ==
    LET newTerminals == FilterOut(terminals, tabId)
        closed == tabId \in OpenIds
    IN  /\ mounted
        /\ tabId \in Created
        /\ terminals' = newTerminals
        /\ notices' = IF closed THEN [notices EXCEPT ![tabId] = @ + 1] ELSE notices
        /\ disposeTimers' =
              IF closed THEN [disposeTimers EXCEPT ![tabId] = @ + 1] ELSE disposeTimers
        /\ writes' = IF closed THEN <<W(tabId, "closing", <<>>)>> ELSE <<>>
        /\ activeTerminalId' = ActiveAfterClose(activeTerminalId, tabId, newTerminals)
        /\ memoHistory' =
              IF Len(newTerminals) # Len(terminals) THEN history ELSE memoHistory
        /\ lastOp' = Op("closeTerminal", tabId, <<>>)
        /\ UNCHANGED <<mounted, history, nextTab, tabDir, closureHistory,
                       currentLine, commandHistory, historyPosition, pending,
                       ctrlCTimers, disposeCalls, submitted, run,
                   resizeTimeout, fits>>

\* setTimeout(() => closedTerminal.terminal.dispose(), 500)
DisposeTimer(tabId) ==
    /\ tabId \in Created
    /\ disposeTimers[tabId] > 0
    /\ disposeTimers' = [disposeTimers EXCEPT ![tabId] = @ - 1]
    /\ disposeCalls' = [disposeCalls EXCEPT ![tabId] = @ + 1]
    /\ writes' = <<>>
    /\ lastOp' = Op("disposeTimer", tabId, <<>>)
    /\ UNCHANGED <<mounted, terminals, activeTerminalId, history, memoHistory,
                   nextTab, tabDir, closureHistory, currentLine, commandHistory,
                   historyPosition, pending, ctrlCTimers, notices, submitted, run,
                   resizeTimeout, fits>>

\* closeAllTerminals that disposes every display ever created
CloseAllDisposesEvery(calls, open) == [i \in DOMAIN calls |-> calls[i] + 1]

\* what closeAllTerminals does to each tab's display: the notice, then dispose()
CloseAllDisposes(calls, open) ==
    [i \in DOMAIN calls |-> IF i \in open THEN calls[i] + 1 ELSE calls[i]]

\* closeAllTerminals
CloseAllTerminals ==
    /\ mounted
    /\ writes' = [i \in 1..Len(terminals) |-> W(terminals[i].id, "closingAll", <<>>)]
    /\ notices' = [i \in DOMAIN notices |->
                      IF i \in OpenIds THEN notices[i] + 1 ELSE notices[i]]
    /\ disposeCalls' = CloseAllDisposes(disposeCalls, OpenIds)
    /\ terminals' = <<>>
    /\ activeTerminalId' = NoTab
    /\ memoHistory' = IF Len(terminals) # 0 THEN history ELSE memoHistory
    /\ lastOp' = Op("closeAllTerminals", NoTab, <<>>)
    /\ UNCHANGED <<mounted, history, nextTab, tabDir, closureHistory, currentLine,
                   commandHistory, historyPosition, pending, ctrlCTimers,
                   disposeTimers, submitted, run,
                   resizeTimeout, fits>>

\* renameTerminal(tabId, newTitle): the renamed tab is a copy, { ...tab, title }
RenameTerminal(tabId, newTitle) ==
    /\ mounted
    /\ tabId \in Created
    /\ terminals' =
          [i \in 1..Len(terminals) |->
              IF terminals[i].id = tabId
              THEN [terminals[i] EXCEPT
                      !.title = IF newTitle # <<>> THEN CustomTitle(newTitle)
                                ELSE DefaultTitle(Len(terminals)),
                      !.orig = FALSE]
              ELSE terminals[i]]
    /\ writes' = <<>>
    /\ lastOp' = Op("renameTerminal", tabId, newTitle)
    /\ UNCHANGED <<mounted, activeTerminalId, history, memoHistory, nextTab,
                   tabDir, closureHistory, currentLine, commandHistory,
                   historyPosition, pending, ctrlCTimers, disposeTimers,
                   disposeCalls, notices, submitted, run,
                   resizeTimeout, fits>>

\* the unmount cleanup closes over the first render's terminals, the empty list:
\* it disposes nothing
Unmount ==
    /\ mounted
    /\ mounted' = FALSE
    /\ writes' = <<>>
    /\ lastOp' = Op("unmount", NoTab, <<>>)
    /\ UNCHANGED <<terminals, activeTerminalId, history, memoHistory, nextTab,
                   tabDir, closureHistory, currentLine, commandHistory,
                   historyPosition, pending, ctrlCTimers, disposeTimers,
                   disposeCalls, notices, submitted, run,
                   resizeTimeout, fits>>

(***************************************************************************)
(* The window's resize event: the two listeners every createTerminal adds, *)
(* handleResize itself and its debounced form. Nothing removes them: the   *)
(* function createTerminal returns is dropped by its callers.              *)
(***************************************************************************)

\* terminalContainerRef.current: the container is rendered for an active tab
ContainerLive == mounted /\ activeTerminalId \in OpenIds

\* handleResize of tab tabId: the calls of fitAddon.fit() it makes
Fits(tabId) == IF ContainerLive THEN 1 ELSE 0

\* the record of a burst after a call of handleResize
Fitted(f, tabId) ==
    [f EXCEPT !.calls = @ + Fits(tabId),
              !.disposed = @ \/ (Fits(tabId) > 0 /\ disposeCalls[tabId] > 0)]

\* the frame of the resize steps
ResizeFrame ==
    UNCHANGED <<mounted, terminals, activeTerminalId, history, memoHistory,
                nextTab, tabDir, closureHistory, currentLine, commandHistory,
                historyPosition, pending, ctrlCTimers, disposeTimers,
                disposeCalls, notices, submitted, run>>

\* one resize event: each tab's handleResize, then its debouncedHandleResize
Resize ==
    /\ Created # {}
    /\ \A tabId \in Created : resizeTimeout[tabId] = 0 \/ fits[tabId].events < MaxBurst
    /\ fits' = [tabId \in DOMAIN fits |->
                  LET burst == IF resizeTimeout[tabId] = 0 THEN NoFits ELSE fits[tabId]
                  IN  Fitted([burst EXCEPT !.events = @ + 1], tabId)]
    /\ resizeTimeout' = [tabId \in DOMAIN resizeTimeout |-> 1]
    /\ writes' = <<>>
    /\ lastOp' = Op("resize", NoTab, <<>>)
    /\ ResizeFrame

\* resizeTimeout = setTimeout(handleResize, 100) fires
ResizeTimer(tabId) ==
    /\ tabId \in Created
    /\ resizeTimeout[tabId] = 1
    /\ resizeTimeout' = [resizeTimeout EXCEPT ![tabId] = 0]
    /\ fits' = [fits EXCEPT ![tabId] = Fitted(@, tabId)]
    /\ writes' = <<>>
    /\ lastOp' = Op("resizeTimer", tabId, <<>>)
    /\ ResizeFrame

(***************************************************************************)
(* The line editor: the onData handler of one tab.                         *)
(***************************************************************************)

\* the editor keeps no cursor of its own: input is appended, the cursor is the end
Cursor(tabId) == Len(currentLine[tabId])

\* a key reaches onData while the component is mounted and the display lives
KeyGuard(tabId) ==
    /\ mounted
    /\ tabId \in Created
    /\ disposeCalls[tabId] = 0

NewRun(line) == [base |-> line, typed |-> <<>>]

\* a push that keeps one entry more: slice(0, 100)
PushHistoryKeepsOneMore(h, command) ==
    <<command>> \o SubSeq(h, 1, Min(Len(h), HistoryKeep + 1))

\* a push that keeps the new command only
PushHistoryDropsRest(h, command) == <<command>>

\* [command, ...commandHistory.slice(0, 99)]
PushHistory(h, command) == <<command>> \o SubSeq(h, 1, Min(Len(h), HistoryKeep))

\* a submission that is not trimmed
SubmittedCommandUntrimmed(line) == line

\* const command = currentLine.trim()
SubmittedCommand(line) == Trim(line)

\* the branch of executeCommand a command takes
Dispatch(command) ==
    IF command = sClear THEN "clear"
    ELSE IF command = sHistory THEN "history"
    ELSE IF command \in {sHelp, sDashDashHelp, sDashH} THEN "help"
    ELSE IF StartsWith(command, sCdSp) THEN "cd"
    ELSE "remote"

\* const dir = command.substring(3).trim(); dir || '/workspace'
CdTarget(command) ==
    LET dir == Trim(Substring(command, 3))
    IN  IF dir # <<>> THEN dir ELSE WORKSPACE

\* a cd that sets the directory of every tab of the list
SetTabDirectoryOfAll(tabs, tabId, dir) ==
    [i \in 1..Len(tabs) |-> [tabs[i] EXCEPT !.currentDirectory = dir]]

\* tab.currentDirectory = ..., seen by the tab list while the tab is the closure's object
SetTabDirectory(tabs, tabId, dir) ==
    [i \in 1..Len(tabs) |->
        IF tabs[i].id = tabId /\ tabs[i].orig
        THEN [tabs[i] EXCEPT !.currentDirectory = dir]
        ELSE tabs[i]]

\* what the synchronous part of executeCommand writes
ExecuteWrites(tabId, command, dir, hist) ==
    LET kind == Dispatch(command)
    IN  IF kind = "clear" THEN <<W(tabId, "clear", <<>>), Prompt(tabId, dir)>>
        ELSE IF kind = "history"
             THEN [i \in 1..Len(hist) |-> W(tabId, "historyLine", hist[i])]
        ELSE IF kind = "help" THEN <<W(tabId, "help", <<>>), Prompt(tabId, dir)>>
        ELSE IF kind = "cd" THEN <<Prompt(tabId, dir)>>
        ELSE <<W(tabId, "command", command)>>

\* currentLine after the Enter handler has returned
LineAfterEnter(line) == <<>>

\* code === 13
Enter(tabId) ==
    LET command == SubmittedCommand(currentLine[tabId])
        kind == Dispatch(command)
        remote == command # <<>> /\ kind = "remote"
        dir == IF command # <<>> /\ kind = "cd" THEN CdTarget(command) ELSE tabDir[tabId]
        line == IF remote THEN currentLine[tabId] ELSE LineAfterEnter(currentLine[tabId])
    IN  /\ KeyGuard(tabId)
        /\ commandHistory' =
              IF command # <<>>
              THEN [commandHistory EXCEPT ![tabId] = PushHistory(@, command)]
              ELSE commandHistory
        /\ history' =
              IF command # <<>> THEN PushHistory(commandHistory[tabId], command)
              ELSE history
        /\ submitted' =
              IF command # <<>> THEN [submitted EXCEPT ![tabId] = <<command>> \o @]
              ELSE submitted
        /\ tabDir' = [tabDir EXCEPT ![tabId] = dir]
        /\ terminals' = IF dir # tabDir[tabId] THEN SetTabDirectory(terminals, tabId, dir)
                        ELSE terminals
        /\ pending' =
              IF remote
              THEN [pending EXCEPT ![tabId] =
                      Append(@, [command |-> command, phase |-> "exec", rest |-> <<>>])]
              ELSE pending
        /\ currentLine' = [currentLine EXCEPT ![tabId] = line]
        \* the handler never assigns historyPosition
        /\ historyPosition' = historyPosition
        /\ run' = [run EXCEPT ![tabId] = NewRun(line)]
        /\ writes' =
              <<W(tabId, "newline", <<>>)>>
              \o (IF command # <<>>
                  THEN ExecuteWrites(tabId, command, dir, closureHistory[tabId])
                  ELSE <<>>)
              \o (IF remote THEN <<>> ELSE <<Prompt(tabId, dir)>>)
        /\ lastOp' = [Op("Enter", tabId, command) EXCEPT
                        !.handed = command # <<>>, !.exec = remote, !.done = ~remote,
                        !.base = run[tabId].base, !.typed = run[tabId].typed]
        /\ UNCHANGED <<mounted, activeTerminalId, memoHistory, nextTab,
                       closureHistory, ctrlCTimers, disposeTimers, disposeCalls,
                       notices, resizeTimeout, fits>>

\* the frame of a key that only edits the line of its tab
EditFrame ==
    UNCHANGED <<mounted, terminals, activeTerminalId, history, memoHistory,
                nextTab, tabDir, closureHistory, commandHistory, pending,
                disposeTimers, disposeCalls, notices, submitted,
                resizeTimeout, fits>>

\* code >= 32: currentLine += data
Input(tabId, data) ==
    /\ KeyGuard(tabId)
    /\ currentLine' = [currentLine EXCEPT ![tabId] = @ \o data]
    /\ run' = [run EXCEPT ![tabId].typed = @ \o data]
    /\ writes' = <<W(tabId, "echo", data)>>
    /\ lastOp' = Op("Input", tabId, data)
    /\ UNCHANGED <<historyPosition, ctrlCTimers>>
    /\ EditFrame

\* code === 3
CtrlC(tabId) ==
    /\ KeyGuard(tabId)
    /\ currentLine' = [currentLine EXCEPT ![tabId] = <<>>]
    /\ ctrlCTimers' = [ctrlCTimers EXCEPT ![tabId] = @ + 1]
    /\ run' = [run EXCEPT ![tabId] = NewRun(<<>>)]
    /\ writes' = <<W(tabId, "line", <<"^", "C">>)>>
    /\ lastOp' = Op("CtrlC", tabId, <<>>)
    /\ UNCHANGED historyPosition
    /\ EditFrame

\* setTimeout(() => xtermTerminal.write(prompt), 100) of Ctrl+C
CtrlCTimer(tabId) ==
    /\ tabId \in Created
    /\ ctrlCTimers[tabId] > 0
    /\ ctrlCTimers' = [ctrlCTimers EXCEPT ![tabId] = @ - 1]
    /\ writes' = <<Prompt(tabId, tabDir[tabId])>>
    /\ lastOp' = Op("ctrlCTimer", tabId, <<>>)
    /\ UNCHANGED <<currentLine, historyPosition, run>>
    /\ EditFrame

\* code === 12
CtrlL(tabId) ==
    /\ KeyGuard(tabId)
    /\ run' = [run EXCEPT ![tabId] = NewRun(currentLine[tabId])]
    /\ writes' = <<W(tabId, "clear", <<>>), W(tabId, "cleared", <<>>),
                   Prompt(tabId, tabDir[tabId])>>
    /\ lastOp' = Op("CtrlL", tabId, <<>>)
    /\ UNCHANGED <<currentLine, historyPosition, ctrlCTimers>>
    /\ EditFrame

\* the first space instead of the last: currentLine.indexOf(' ')
FirstSpace(line) ==
    IF \E i \in 1..Len(line) : line[i] = " "
    THEN CHOOSE i \in 1..Len(line) :
            line[i] = " " /\ \A j \in 1..(i - 1) : line[j] # " "
    ELSE 0

\* currentLine.lastIndexOf(' '), 1-based, 0 when there is none
LastSpace(line) ==
    IF \E i \in 1..Len(line) : line[i] = " "
    THEN CHOOSE i \in 1..Len(line) :
            line[i] = " " /\ \A j \in (i + 1)..Len(line) : line[j] # " "
    ELSE 0

\* code === 23
CtrlW(tabId) ==
    LET line == SubSeq(currentLine[tabId], 1, LastSpace(currentLine[tabId]))
    IN  /\ KeyGuard(tabId)
        /\ currentLine' = [currentLine EXCEPT ![tabId] = line]
        /\ run' = [run EXCEPT ![tabId] = NewRun(line)]
        /\ writes' = <<W(tabId, "redraw", line)>>
        /\ lastOp' = Op("CtrlW", tabId, currentLine[tabId])
        /\ UNCHANGED <<historyPosition, ctrlCTimers>>
        /\ EditFrame

\* code === 11
CtrlK(tabId) ==
    /\ KeyGuard(tabId)
    /\ currentLine' = [currentLine EXCEPT ![tabId] = <<>>]
    /\ run' = [run EXCEPT ![tabId] = NewRun(<<>>)]
    /\ writes' = <<W(tabId, "erase", currentLine[tabId])>>
    /\ lastOp' = Op("CtrlK", tabId, <<>>)
    /\ UNCHANGED <<historyPosition, ctrlCTimers>>
    /\ EditFrame

\* code === 127
Backspace(tabId) ==
    LET line == IF Len(currentLine[tabId]) > 0
                THEN SubSeq(currentLine[tabId], 1, Len(currentLine[tabId]) - 1)
                ELSE currentLine[tabId]
    IN  /\ KeyGuard(tabId)
        /\ currentLine' = [currentLine EXCEPT ![tabId] = line]
        /\ run' = [run EXCEPT ![tabId] = NewRun(line)]
        /\ writes' = IF Len(currentLine[tabId]) > 0
                     THEN <<W(tabId, "rubout", <<>>)>> ELSE <<>>
        /\ lastOp' = Op("Backspace", tabId, <<>>)
        /\ UNCHANGED <<historyPosition, ctrlCTimers>>
        /\ EditFrame

\* an Up arrow that steps back from the newest position only
UpMovesFromStart(h, pos) == Len(h) > 0 /\ pos < 0

\* commandHistory.length > 0 && historyPosition < commandHistory.length - 1
UpMoves(h, pos) == Len(h) > 0 /\ pos < Len(h) - 1

\* data === '\x1b[A'
ArrowUp(tabId) ==
    LET h == commandHistory[tabId]
        move == UpMoves(h, historyPosition[tabId])
        pos == IF move THEN historyPosition[tabId] + 1 ELSE historyPosition[tabId]
        line == IF move THEN h[pos + 1] ELSE currentLine[tabId]
    IN  /\ KeyGuard(tabId)
        /\ historyPosition' = [historyPosition EXCEPT ![tabId] = pos]
        /\ currentLine' = [currentLine EXCEPT ![tabId] = line]
        /\ run' = [run EXCEPT ![tabId] = NewRun(line)]
        /\ writes' = IF move THEN <<W(tabId, "redraw", line)>> ELSE <<>>
        /\ lastOp' = Op("ArrowUp", tabId, <<>>)
        /\ UNCHANGED ctrlCTimers
        /\ EditFrame

\* data === '\x1b[B'
ArrowDown(tabId) ==
    LET h == commandHistory[tabId]
        pos == IF historyPosition[tabId] > 0 THEN historyPosition[tabId] - 1 ELSE -1
        line == IF historyPosition[tabId] > 0 THEN h[pos + 1] ELSE <<>>
    IN  /\ KeyGuard(tabId)
        /\ historyPosition' = [historyPosition EXCEPT ![tabId] = pos]
        /\ currentLine' = [currentLine EXCEPT ![tabId] = line]
        /\ run' = [run EXCEPT ![tabId] = NewRun(line)]
        /\ writes' = <<W(tabId, "redraw", line)>>
        /\ lastOp' = Op("ArrowDown", tabId, <<>>)
        /\ UNCHANGED ctrlCTimers
        /\ EditFrame

(***************************************************************************)
(* Tab completion: the static vocabulary and the Tab key.                  *)
(***************************************************************************)
AUTOCOMPLETE_COMMANDS ==
    << <<"l", "s">>,
       <<"l", "s", " ", "-", "l", "a">>,
       <<"l", "s", " ", "-", "l">>,
       <<"p", "w", "d">>,
       <<"c", "d">>,
       <<"c", "d", " ", ".", ".">>,
       <<"c", "d", " ", "~">>,
       <<"m", "k", "d", "i", "r">>,
       <<"r", "m", "d", "i", "r">>,
       <<"r", "m">>,
       <<"r", "m", " ", "-", "r", "f">>,
       <<"c", "p">>,
       <<"c", "p", " ", "-", "r">>,
       <<"m", "v">>,
       <<"t", "o", "u", "c", "h">>,
       <<"c", "a", "t">>,
       <<"l", "e", "s", "s">>,
       <<"m", "o", "r", "e">>,
       <<"h", "e", "a", "d">>,
       <<"t", "a", "i", "l">>,
       <<"f", "i", "n", "d">>,
       <<"f", "i", "n", "d", " ", ".", " ", "-", "n", "a", "m", "e">>,
       <<"g", "r", "e", "p">>,
       <<"g", "r", "e", "p", " ", "-", "r">>,
       <<"w", "h", "o", "a", "m", "i">>,
       <<"w", "h", "i", "c", "h">>,
       <<"w", "h", "e", "r", "e", "i", "s">>,
       <<"t", "o", "p">>,
       <<"p", "s">>,
       <<"p", "s", " ", "a", "u", "x">>,
       <<"d", "f", " ", "-", "h">>,
       <<"f", "r", "e", "e", " ", "-", "h">>,
       <<"u", "n", "a", "m", "e", " ", "-", "a">>,
       <<"h", "i", "s", "t", "o", "r", "y">>,
       <<"c", "l", "e", "a", "r">>,
       <<"n", "o", "d", "e">>,
       <<"n", "o", "d", "e", " ", "-", "-", "v", "e", "r", "s", "i", "o", "n">>,
       <<"n", "p", "m">>,
       <<"n", "p", "m", " ", "-", "-", "v", "e", "r", "s", "i", "o", "n">>,
       <<"n", "p", "m", " ", "i", "n", "s", "t", "a", "l", "l">>,
       <<"n", "p", "m", " ", "r", "u", "n">>,
       <<"y", "a", "r", "n">>,
       <<"y", "a", "r", "n", " ", "-", "-", "v", "e", "r", "s", "i", "o", "n">>,
       <<"p", "n", "p", "m">>,
       <<"p", "n", "p", "m", " ", "-", "-", "v", "e", "r", "s", "i", "o", "n">>,
       <<"n", "p", "x">>,
       <<"p", "y", "t", "h", "o", "n">>,
       <<"p", "y", "t", "h", "o", "n", " ", "-", "-", "v", "e", "r", "s", "i", "o", "n">>,
       <<"p", "y", "t", "h", "o", "n", "3">>,
       <<"p", "y", "t", "h", "o", "n", "3", " ", "-", "-", "v", "e", "r", "s", "i", "o", "n">>,
       <<"p", "i", "p">>,
       <<"p", "i", "p", "3">>,
       <<"g", "i", "t">>,
       <<"g", "i", "t", " ", "-", "-", "v", "e", "r", "s", "i", "o", "n">>,
       <<"g", "i", "t", " ", "s", "t", "a", "t", "u", "s">>,
       <<"g", "i", "t", " ", "a", "d", "d">>,
       <<"g", "i", "t", " ", "c", "o", "m", "m", "i", "t">>,
       <<"g", "i", "t", " ", "p", "u", "s", "h">>,
       <<"g", "i", "t", " ", "p", "u", "l", "l">>,
       <<"g", "i", "t", " ", "c", "l", "o", "n", "e">>,
       <<"g", "i", "t", " ", "c", "h", "e", "c", "k", "o", "u", "t">>,
       <<"g", "i", "t", " ", "b", "r", "a", "n", "c", "h">>,
       <<"g", "i", "t", " ", "l", "o", "g">>,
       <<"g", "i", "t", " ", "d", "i", "f", "f">>,
       <<"k", "i", "l", "l">>,
       <<"k", "i", "l", "l", "a", "l", "l">>,
       <<"j", "o", "b", "s">>,
       <<"b", "g">>,
       <<"f", "g">>,
       <<"&">>,
       <<"n", "o", "h", "u", "p">>,
       <<"c", "u", "r", "l">>,
       <<"w", "g", "e", "t">>,
       <<"p", "i", "n", "g">>,
       <<"s", "s", "h">>,
       <<"s", "c", "p">>,
       <<"t", "a", "r">>,
       <<"t", "a", "r", " ", "-", "c", "z", "f">>,
       <<"t", "a", "r", " ", "-", "x", "z", "f">>,
       <<"z", "i", "p">>,
       <<"u", "n", "z", "i", "p">>,
       <<"s", "e", "d">>,
       <<"a", "w", "k">>,
       <<"s", "o", "r", "t">>,
       <<"u", "n", "i", "q">>,
       <<"w", "c">>,
       <<"c", "u", "t">>,
       <<"t", "r">> >>

\* Array.prototype.filter(cmd => cmd.startsWith(line)), the order kept
Candidates(line) ==
    SelectSeq(AUTOCOMPLETE_COMMANDS, LAMBDA cmd : StartsWith(cmd, line))

\* a Tab that takes the first candidate of several
LineAfterTabTakesFirst(line) ==
    IF Len(Candidates(line)) >= 1 THEN Candidates(line)[1] ELSE line

\* currentLine after Tab: the only candidate, or the line as it is
LineAfterTab(line) ==
    IF Len(Candidates(line)) = 1 THEN Candidates(line)[1] ELSE line

\* what Tab writes: the completed line, the suggestions, or two spaces
TabWrites(tabId, line) ==
    LET options == Candidates(line)
    IN  IF Len(options) = 1 THEN <<W(tabId, "redraw", options[1])>>
        ELSE IF Len(options) > 1
             THEN <<W(tabId, "newline", <<>>), W(tabId, "suggestions", <<>>)>>
                  \o [i \in 1..Len(options) |-> W(tabId, "suggestion", options[i])]
                  \o <<W(tabId, "redraw", line)>>
        ELSE <<W(tabId, "echo", <<" ", " ">>)>>

\* code === 9
Tab(tabId) ==
    LET line == LineAfterTab(currentLine[tabId])
    IN  /\ KeyGuard(tabId)
        /\ currentLine' = [currentLine EXCEPT ![tabId] = line]
        /\ run' = [run EXCEPT ![tabId] = NewRun(line)]
        /\ writes' = TabWrites(tabId, currentLine[tabId])
        /\ lastOp' = [Op("Tab", tabId, currentLine[tabId]) EXCEPT !.base = currentLine[tabId]]
        /\ UNCHANGED <<historyPosition, ctrlCTimers>>
        /\ EditFrame

(***************************************************************************)
(* The clipboard and the input line as the display shows it.               *)
(***************************************************************************)

\* pasteFromClipboard once readText() has resolved: activeTerminal.terminal.write(text)
Paste(text) ==
    /\ mounted
    /\ activeTerminalId \in OpenIds
    /\ run' = [run EXCEPT ![activeTerminalId] = NewRun(currentLine[activeTerminalId])]
    /\ writes' = <<W(activeTerminalId, "paste", text)>>
    /\ lastOp' = Op("paste", activeTerminalId, text)
    /\ UNCHANGED <<currentLine, historyPosition, ctrlCTimers>>
    /\ EditFrame

\* the input line of the display after one write: text is put at the cursor,
\* '\b \b' rubs one character out, Ctrl+K blanks as many as the line had, a
\* redraw rewrites the row from its start, a prompt or a whole line written
\* with writeln leaves the cursor on an empty input line
ShownAfterWrite(shown, w) ==
    IF w.k \in {"echo", "paste"} THEN shown \o w.t
    ELSE IF w.k = "rubout" THEN SubSeq(shown, 1, Len(shown) - 1)
    ELSE IF w.k = "erase" THEN SubSeq(shown, 1, Len(shown) - Len(w.t))
    ELSE IF w.k = "redraw" THEN w.t
    ELSE <<>>

\* the input line of the display after the writes ws, in their order
RECURSIVE ShownAfter(_, _)
ShownAfter(shown, ws) ==
    IF ws = <<>> THEN shown
    ELSE ShownAfter(ShownAfterWrite(shown, Head(ws)), Tail(ws))

(***************************************************************************)
(* The remote path of executeCommand: the Enter handler resumes when the   *)
(* Executor settles, and between the paced lines of npm, git and yarn.     *)
(***************************************************************************)

\* a handler that never leaves the suspended ones
RemoveAtKeepsAll(q, i) == q

\* Array.prototype.splice(i, 1) on the suspended handlers of a tab
RemoveAt(q, i) == SubSeq(q, 1, i - 1) \o SubSeq(q, i + 1, Len(q))

\* output that is dropped instead of written
OutLinesSilent(tabId, lines) == <<>>

\* terminal.writeln(color + line + RESET) for each line of the output
OutLines(tabId, lines) ==
    [i \in 1..Len(lines) |-> W(tabId, LineColour(lines[i]), lines[i])]

TimeLine(tabId, slow) ==
    IF slow THEN <<W(tabId, "time", <<>>)>> ELSE <<>>

\* a catch block that writes its time line in red too
CatchWritesRedTime(tabId, message, slow, dir) ==
    <<W(tabId, "red", <<"E", "r", "r", "o", "r", ":", " ">> \o message)>>
    \o (IF slow THEN <<W(tabId, "red", <<>>)>> ELSE <<>>) \o <<Prompt(tabId, dir)>>

\* the catch block of executeCommand: the error line, the time line, the prompt
CatchWrites(tabId, message, slow, dir) ==
    <<W(tabId, "red", <<"E", "r", "r", "o", "r", ":", " ">> \o message)>>
    \o TimeLine(tabId, slow) \o <<Prompt(tabId, dir)>>

\* the end of the Enter handler after the await: currentLine = '', the prompt
Finish(tabId, i, op, arg, before) ==
    /\ pending' = [pending EXCEPT ![tabId] = RemoveAt(@, i)]
    /\ currentLine' = [currentLine EXCEPT ![tabId] = LineAfterEnter(@)]
    /\ run' = [run EXCEPT ![tabId] = NewRun(LineAfterEnter(currentLine[tabId]))]
    /\ writes' = before \o <<Prompt(tabId, tabDir[tabId])>>
    /\ lastOp' = [Op(op, tabId, arg) EXCEPT !.done = TRUE]

\* the frame of the steps of a suspended handler
ResumeFrame ==
    UNCHANGED <<mounted, terminals, activeTerminalId, history, memoHistory,
                nextTab, tabDir, closureHistory, commandHistory, historyPosition,
                ctrlCTimers, disposeTimers, disposeCalls, notices, submitted,
                resizeTimeout, fits>>

\* if (output) { const lines = output.split('\n').filter(line => line.trim()) ... }
OutputLines(output) ==
    IF output # <<>> THEN NonBlank(SplitLines(output)) ELSE <<>>

\* firecrackerService.executeCommand resolves with the output
ExecResolve(tabId, i, slow) ==
    /\ tabId \in Created
    /\ i \in 1..Len(pending[tabId])
    /\ pending[tabId][i].phase = "exec"
    /\ \E command \in {pending[tabId][i].command} :
       \E lines \in {OutputLines(MockOutput(command))} :
           IF lines # <<>> /\ IsPaced(command)
           THEN \* the first line, then the 10 ms pause
                /\ pending' = [pending EXCEPT
                                 ![tabId][i] = [command |-> command, phase |-> "stream",
                                                rest |-> Tail(lines)]]
                /\ writes' = OutLines(tabId, <<Head(lines)>>)
                /\ lastOp' = Op("resolve", tabId, command)
                /\ UNCHANGED <<currentLine, run>>
           ELSE Finish(tabId, i, "resolve", command,
                       OutLines(tabId, lines) \o TimeLine(tabId, slow))
    /\ ResumeFrame

\* the handler resumes after the pause between two paced lines
StreamStep(tabId, i, slow) ==
    /\ tabId \in Created
    /\ i \in 1..Len(pending[tabId])
    /\ pending[tabId][i].phase = "stream"
    /\ LET command == pending[tabId][i].command
           rest == pending[tabId][i].rest
       IN  IF rest # <<>>
           THEN /\ pending' = [pending EXCEPT ![tabId][i].rest = Tail(rest)]
                /\ writes' = OutLines(tabId, <<Head(rest)>>)
                /\ lastOp' = Op("stream", tabId, command)
                /\ UNCHANGED <<currentLine, run>>
           ELSE Finish(tabId, i, "stream", command, TimeLine(tabId, slow))
    /\ ResumeFrame

\* firecrackerService.executeCommand rejects: the catch block, then the handler's end
ExecReject(tabId, i, message, slow) ==
    /\ tabId \in Created
    /\ i \in 1..Len(pending[tabId])
    /\ pending[tabId][i].phase = "exec"
    /\ Finish(tabId, i, "reject", message,
              CatchWrites(tabId, message, slow, tabDir[tabId]))
    /\ ResumeFrame

(***************************************************************************)
(* The specification: the keys and clicks explored, and their bounds.      *)
(***************************************************************************)

\* the titles the explored renames give: the empty one falls back to a default
Titles == {<<>>, <<"b">>}

\* the clicks on the tab bar, the effects and the timers of the session manager
ManagerStep(maxTabs) ==
    \/ MountEffect /\ nextTab <= maxTabs
    \/ NewTerminal /\ nextTab <= maxTabs
    \/ \E tabId \in Created : SetActive(tabId)
    \/ \E tabId \in Created : CloseTerminal(tabId)
    \/ \E tabId \in Created : DisposeTimer(tabId)
    \/ CloseAllTerminals
    \/ \E tabId \in Created, t \in Titles : RenameTerminal(tabId, t)
    \/ Unmount

\* typing a line and submitting it
TypeStep(data, typable, maxSubmit) ==
    \/ \E tabId \in Created, d \in data :
          currentLine[tabId] \o d \in typable /\ Input(tabId, d)
    \/ \E tabId \in Created :
          /\ SubmittedCommand(currentLine[tabId]) # <<>> => Len(submitted[tabId]) < maxSubmit
          /\ Len(pending[tabId]) < MaxPending
          /\ Enter(tabId)

\* the editing keys
EditStep ==
    \/ \E tabId \in Created : ctrlCTimers[tabId] < MaxCtrlC /\ CtrlC(tabId)
    \/ \E tabId \in Created : CtrlCTimer(tabId)
    \/ \E tabId \in Created : CtrlL(tabId)
    \/ \E tabId \in Created : CtrlW(tabId)
    \/ \E tabId \in Created : CtrlK(tabId)
    \/ \E tabId \in Created : Backspace(tabId)
    \/ \E tabId \in Created : ArrowUp(tabId)
    \/ \E tabId \in Created : ArrowDown(tabId)

\* the Executor settles, the paced output goes on
ResumeStep ==
    \/ \E tabId \in Created, i \in 1..MaxPending, slow \in BOOLEAN :
          ExecResolve(tabId, i, slow)
    \/ \E tabId \in Created, i \in 1..MaxPending, slow \in BOOLEAN :
          StreamStep(tabId, i, slow)
    \/ \E tabId \in Created, i \in 1..MaxPending, m \in ErrorMessages, slow \in BOOLEAN :
          ExecReject(tabId, i, m, slow)

\* the chunks of printable input one onData call delivers, and the lines they build
Data == {sLs, sCd, sSpX, sSp, sHelp, sClear, sHistory, sGit}
Typable ==
    {sLs, sSp, sSp \o sLs, sLs \o sSp, sCd, sCd \o sSp, sCd \o sSpX, sSpX,
     sHelp, sClear, sHistory, sGit, sLs \o sLs}

\* the sessions of the program, with two remote commands to type, one of them
\* paced; the resize steps, which read the tabs and write resizeTimeout and fits
\* only, and the paste are explored in SpecResize and SpecShow
Next ==
    \/ ManagerStep(MaxTabs)
    \/ TypeStep({sLs, sGit}, {sLs, sGit}, MaxSubmit)
    \/ EditStep
    \/ \E tabId \in Created : Tab(tabId)
    \/ ResumeStep

Spec == Init /\ [][Next]_vars

\* the line editor and the dispatcher of the first tab
NextEdit ==
    \/ MountEffect /\ nextTab = 1
    \/ TypeStep(Data, Typable, MaxSubmit)
    \/ EditStep
    \/ ResumeStep

SpecEdit == Init /\ [][NextEdit]_vars

\* the session manager
NextTabs == ManagerStep(MaxManagerTabs)

SpecTabs == Init /\ [][NextTabs]_vars

(***************************************************************************)
(* The history near its cap: the first tab after n submissions, n around   *)
(* the cap, then the builtins help and clear submitted further.            *)
(***************************************************************************)
HistoryAfter(n) ==
    [i \in 1..n |-> IF i % 3 = 0 THEN sLs ELSE IF i % 7 = 0 THEN sHelp ELSE sClear]

InitHist ==
    /\ mounted = TRUE
    /\ terminals = <<[id |-> 1, title |-> DefaultTitle(1),
                      currentDirectory |-> WORKSPACE, orig |-> TRUE]>>
    /\ activeTerminalId = 1
    /\ nextTab = 2
    /\ memoHistory = <<>>
    /\ closureHistory = <<<<>>>>
    /\ tabDir = <<WORKSPACE>>
    /\ currentLine = <<<<>>>>
    /\ historyPosition = <<-1>>
    /\ pending = <<<<>>>>
    /\ ctrlCTimers = <<0>>
    /\ disposeTimers = <<0>>
    /\ disposeCalls = <<0>>
    /\ notices = <<0>>
    /\ run = <<NewRun(<<>>)>>
    /\ resizeTimeout = <<0>>
    /\ fits = <<NoFits>>
    /\ \E n \in (HistoryKeep - 1)..(HistoryKeep + 1) :
          /\ commandHistory = <<HistoryAfter(n)>>
          /\ submitted = <<HistoryAfter(n)>>
          /\ history = HistoryAfter(n)
    /\ writes = <<>>
    /\ lastOp = [op |-> "start", id |-> 1, arg |-> <<>>, was |-> 1, handed |-> FALSE,
                 exec |-> FALSE, done |-> FALSE, base |-> <<>>, typed |-> <<>>]

NextHist == TypeStep({sHelp, sClear}, {sHelp, sClear}, HistoryKeep + 1 + HistSlack)

SpecHist == InitHist /\ [][NextHist]_vars

(***************************************************************************)
(* Two sessions side by side: typing, submitting and browsing in each.     *)
(***************************************************************************)
PairData == {sLs, sCd, sSpX}
PairTypable == {sLs, sCd, sCd \o sSpX}

NextPair ==
    \/ MountEffect /\ nextTab <= MaxPairTabs
    \/ NewTerminal /\ nextTab <= MaxPairTabs
    \/ TypeStep(PairData, PairTypable, MaxSubmit)
    \/ \E tabId \in Created : ArrowUp(tabId)
    \/ \E tabId \in Created : ExecResolve(tabId, 1, FALSE)
    \/ \E tabId \in Created, m \in ErrorMessages : ExecReject(tabId, 1, m, FALSE)

SpecPair == Init /\ [][NextPair]_vars

(***************************************************************************)
(* Browsing the history: the first tab after n submissions, then the       *)
(* arrows, a line typed and submitted.                                     *)
(***************************************************************************)
InitBrowse ==
    /\ mounted = TRUE
    /\ terminals = <<[id |-> 1, title |-> DefaultTitle(1),
                      currentDirectory |-> WORKSPACE, orig |-> TRUE]>>
    /\ activeTerminalId = 1
    /\ nextTab = 2
    /\ memoHistory = <<>>
    /\ closureHistory = <<<<>>>>
    /\ tabDir = <<WORKSPACE>>
    /\ currentLine = <<<<>>>>
    /\ historyPosition = <<-1>>
    /\ pending = <<<<>>>>
    /\ ctrlCTimers = <<0>>
    /\ disposeTimers = <<0>>
    /\ disposeCalls = <<0>>
    /\ notices = <<0>>
    /\ run = <<NewRun(<<>>)>>
    /\ resizeTimeout = <<0>>
    /\ fits = <<NoFits>>
    /\ \E n \in 0..MaxBrowse :
          /\ commandHistory = <<HistoryAfter(n)>>
          /\ submitted = <<HistoryAfter(n)>>
          /\ history = HistoryAfter(n)
    /\ writes = <<>>
    /\ lastOp = [op |-> "start", id |-> 1, arg |-> <<>>, was |-> 1, handed |-> FALSE,
                 exec |-> FALSE, done |-> FALSE, base |-> <<>>, typed |-> <<>>]

NextBrowse ==
    \/ TypeStep({sLs}, {sLs}, MaxBrowse + 1)
    \/ \E tabId \in Created : ArrowUp(tabId)
    \/ \E tabId \in Created : ArrowDown(tabId)
    \/ \E tabId \in Created : ExecResolve(tabId, 1, FALSE)

SpecBrowse == InitBrowse /\ [][NextBrowse]_vars

(***************************************************************************)
(* Completion: prefixes typed a character at a time in the first tab,      *)
(* completed, rubbed out and submitted.                                    *)
(***************************************************************************)
TabData == {<<"g">>, <<"r">>, <<"p">>, <<"w">>, <<"z">>, <<"G">>}
TabTypable ==
    {<<"g">>, <<"g", "r">>, <<"p">>, <<"p", "w">>, <<"z">>, <<"G">>, <<"G", "r">>}

NextTab ==
    \/ MountEffect /\ nextTab = 1
    \/ TypeStep(TabData, TabTypable, MaxSubmit)
    \/ \E tabId \in Created : Tab(tabId)
    \/ \E tabId \in Created : Backspace(tabId)
    \/ \E tabId \in Created : ExecResolve(tabId, 1, FALSE)

SpecTab == Init /\ [][NextTab]_vars

(***************************************************************************)
(* Output formatting: commands of one or two words typed in the first tab; *)
(* the Executor echoes them in its output, which is then formatted.        *)
(***************************************************************************)
ClassifyData ==
    { <<"e", "r", "r", "o", "r", " ">>,
      <<"F", "a", "i", "l", "e", "d", " ">>,
      <<"W", "A", "R", "N", "I", "N", "G", " ">>,
      <<"s", "u", "c", "c", "e", "s", "s", " ">>,
      <<"d", "o", "n", "e", " ">>,
      <<"→", " ">>,
      <<"=", ">", " ">>,
      <<"o", "k", " ">> }
ClassifyTypable == ClassifyData \cup {a \o b : a \in ClassifyData, b \in ClassifyData}

NextClassify ==
    \/ MountEffect /\ nextTab = 1
    \/ TypeStep(ClassifyData, ClassifyTypable, MaxSubmit)
    \/ \E tabId \in Created : ExecResolve(tabId, 1, FALSE)

SpecClassify == Init /\ [][NextClassify]_vars

(***************************************************************************)
(* Deleting words: a command of three words typed in the first tab, cut    *)
(* back by Ctrl+W, Backspace and Ctrl+K, completed and redrawn.             *)
(***************************************************************************)
sInstall == <<"i", "n", "s", "t", "a", "l", "l">>
sPkg == <<"p", "k", "g">>
WordData == {sNpm, sSp, sInstall, sPkg}
WordTypable ==
    {sNpm, sNpm \o sSp, sNpm \o sSp \o sInstall, sNpm \o sSp \o sInstall \o sSp,
     sNpm \o sSp \o sInstall \o sSp \o sPkg, sPkg, sPkg \o sSp,
     sInstall, sInstall \o sSp, sInstall \o sSp \o sPkg}

NextWord ==
    \/ MountEffect /\ nextTab = 1
    \/ \E tabId \in Created, d \in WordData :
          currentLine[tabId] \o d \in WordTypable /\ Input(tabId, d)
    \/ \E tabId \in Created : CtrlW(tabId)
    \/ \E tabId \in Created : CtrlK(tabId)
    \/ \E tabId \in Created : CtrlL(tabId)
    \/ \E tabId \in Created : Backspace(tabId)
    \/ \E tabId \in Created : Tab(tabId)

SpecWord == Init /\ [][NextWord]_vars

(***************************************************************************)
(* Submissions that settle: the first tab, its keys, and an Executor and   *)
(* timers that eventually answer (the event loop runs every resumption     *)
(* that stays ready).                                                      *)
(***************************************************************************)
LiveData == {sLs, sGit, sSp, sHelp}

NextLive ==
    \/ MountEffect /\ nextTab = 1
    \/ TypeStep(LiveData, LiveData, MaxSubmit)
    \/ \E tabId \in Created : CtrlK(tabId)
    \/ \E tabId \in Created : ArrowUp(tabId)
    \/ ResumeStep

SpecLive == Init /\ [][NextLive]_vars /\ WF_vars(ResumeStep)

(***************************************************************************)
(* Resizing the window while sessions are opened, closed and disposed.     *)
(***************************************************************************)
NextResize ==
    \/ MountEffect /\ nextTab <= MaxPairTabs
    \/ NewTerminal /\ nextTab <= MaxPairTabs
    \/ \E tabId \in Created : SetActive(tabId)
    \/ \E tabId \in Created : CloseTerminal(tabId)
    \/ \E tabId \in Created : DisposeTimer(tabId)
    \/ Unmount
    \/ Resize
    \/ \E tabId \in Created : ResizeTimer(tabId)

SpecResize == Init /\ [][NextResize]_vars

(***************************************************************************)
(* What the display shows of the line: every editing key, the completion   *)
(* and a paste in the first tab.                                            *)
(***************************************************************************)
ShowData == {sLs, <<"z">>}
ClipboardTexts == {sLs}

NextShow ==
    \/ MountEffect /\ nextTab = 1
    \/ TypeStep(ShowData, ShowData, MaxSubmit)
    \/ \E tabId \in Created : CtrlL(tabId)
    \/ \E tabId \in Created : CtrlW(tabId)
    \/ \E tabId \in Created : CtrlK(tabId)
    \/ \E tabId \in Created : Backspace(tabId)
    \/ \E tabId \in Created : ArrowUp(tabId)
    \/ \E tabId \in Created : ArrowDown(tabId)
    \/ \E tabId \in Created : Tab(tabId)
    \/ \E text \in ClipboardTexts : Paste(text)
    \/ \E tabId \in Created : ExecResolve(tabId, 1, FALSE)

SpecShow == Init /\ [][NextShow]_vars

(***************************************************************************)
(* Renaming the first tab between its submissions of cd and ls.            *)
(***************************************************************************)
RenameData == {sCd, sSpX, sLs}
RenameTypable == {sCd, sCd \o sSpX, sLs}

NextRename ==
    \/ MountEffect /\ nextTab = 1
    \/ TypeStep(RenameData, RenameTypable, MaxSubmit)
    \/ \E tabId \in Created, t \in Titles : RenameTerminal(tabId, t)
    \/ \E tabId \in Created : CtrlK(tabId)
    \/ \E tabId \in Created : ExecResolve(tabId, 1, FALSE)

SpecRename == Init /\ [][NextRename]_vars

(***************************************************************************)
(* The claims.                                                             *)
(***************************************************************************)
sErrorColon == <<"E", "r", "r", "o", "r", ":", " ">>

\* the Enter handler of lastOp.id has returned in the last step
EnterReturned == lastOp.op \in {"Enter", "resolve", "stream", "reject"} /\ lastOp.done

\* C1: after every Enter, once its handler has returned (at once for an empty
\* line and a builtin, when the dispatch has settled for a remote command), the
\* line buffer is empty, the cursor is 0 and the history cursor is -1.
C1_EnterResetsEditor ==
    EnterReturned =>
        /\ currentLine[lastOp.id] = <<>>
        /\ Cursor(lastOp.id) = 0
        /\ historyPosition[lastOp.id] = -1

\* an Enter has returned while the history was being browsed
C1_EnterWhileBrowsing == EnterReturned /\ historyPosition[lastOp.id] >= 0

\* C2, as claimed: printable input followed by Enter hands the dispatcher the
\* exact concatenation of the characters typed.
C2_ExactConcatenation ==
    (lastOp.op = "Enter" /\ lastOp.typed # <<>>) =>
        lastOp.handed /\ lastOp.arg = lastOp.typed

\* c is s without its leading and trailing spaces
IsTrimOf(c, s) ==
    \E a \in 0..Len(s) :
        /\ a + Len(c) <= Len(s)
        /\ SubSeq(s, a + 1, a + Len(c)) = c
        /\ \A i \in 1..Len(s) : (i <= a \/ i > a + Len(c)) => s[i] = " "
        /\ c # <<>> => c[1] # " " /\ c[Len(c)] # " "

\* C2, amended: printable input typed onto the line buffer B and followed by Enter,
\* with no other event of the tab in between, hands the dispatcher B followed by the
\* characters typed, without its leading and trailing whitespace, and hands it
\* nothing when that is empty.
C2_TrimmedConcatenation ==
    lastOp.op = "Enter" =>
        /\ IsTrimOf(lastOp.arg, lastOp.base \o lastOp.typed)
        /\ lastOp.handed <=> lastOp.arg # <<>>

\* a line typed with a leading space onto an empty buffer has been submitted
C2_TrimmedSubmission ==
    /\ lastOp.op = "Enter"
    /\ lastOp.base = <<>>
    /\ lastOp.handed
    /\ Len(lastOp.arg) < Len(lastOp.typed)

\* C3: the history of a tab is the latest 100 of its non-empty submissions, the
\* latest first: its length is N up to 100 submissions and 100 from then on, its
\* head is the command just submitted, nothing is deduplicated, and a push onto
\* 100 entries drops the oldest one only.
C3_HistoryIsLatestHundred ==
    /\ \A tabId \in Created :
          /\ Len(commandHistory[tabId]) = Min(Len(submitted[tabId]), 100)
          /\ commandHistory[tabId] = SubSeq(submitted[tabId], 1, Len(commandHistory[tabId]))
    /\ (lastOp.op = "Enter" /\ lastOp.handed) =>
          /\ commandHistory[lastOp.id][1] = lastOp.arg
          /\ submitted[lastOp.id][1] = lastOp.arg

\* a submission has evicted the oldest entry
C3_Evicted ==
    /\ lastOp.op = "Enter"
    /\ lastOp.handed
    /\ Len(submitted[lastOp.id]) > 100
    /\ Len(commandHistory[lastOp.id]) = 100

\* the commands the dispatcher is to handle locally
IsBuiltinText(c) == c \in {sHelp, sClear, sHistory, sCd} \/ StartsWith(c, sCdSp)

\* C4: Enter on help, clear, history, cd or cd <arg> never calls the Executor.
C4_BuiltinsStayLocal ==
    (lastOp.op = "Enter" /\ IsBuiltinText(lastOp.arg)) => ~lastOp.exec

\* a builtin has been submitted and handled locally
C4_BuiltinHandledLocally ==
    lastOp.op = "Enter" /\ StartsWith(lastOp.arg, sCdSp) /\ ~lastOp.exec

RedLines(ws, tabId) == SelectSeq(ws, LAMBDA w : w.id = tabId /\ w.k = "red")

\* C5: when the Executor rejects with message M, exactly one red line "Error: M"
\* is written to the tab, the step neither closes nor removes nor disposes any tab,
\* and it leaves the editor of the tab as a resolved dispatch leaves it: the line
\* empty, history, history cursor and directory untouched, and the key guard (the
\* component mounted, the display alive) as it was.
C5_RejectionIsOneRedLine ==
    [][lastOp'.op = "reject" =>
          LET tabId == lastOp'.id
          IN  /\ RedLines(writes', tabId) = <<W(tabId, "red", sErrorColon \o lastOp'.arg)>>
              /\ \A i \in 1..Len(writes') : writes'[i].id = tabId
              /\ UNCHANGED <<terminals, activeTerminalId, mounted, nextTab,
                             disposeTimers, disposeCalls, notices, commandHistory,
                             historyPosition, tabDir, ctrlCTimers>>
              /\ currentLine'[tabId] = <<>>
              /\ Len(pending'[tabId]) = Len(pending[tabId]) - 1
              /\ \A other \in Created \ {tabId} :
                    currentLine'[other] = currentLine[other]
                    /\ pending'[other] = pending[other]]_vars

\* a dispatch of an open tab has been rejected
C5_RejectedOpen ==
    /\ lastOp.op = "reject"
    /\ lastOp.arg = sVmNotRunning
    /\ lastOp.id \in OpenIds
    /\ KeyGuard(lastOp.id)

\* C6: the active id is none exactly when no tab is open, and otherwise names
\* exactly one open tab, whose display is neither disposed nor about to be.
C6_ActiveIsOpen ==
    /\ activeTerminalId = NoTab <=> Len(terminals) = 0
    /\ Len(terminals) > 0 =>
          /\ Cardinality({i \in 1..Len(terminals) : terminals[i].id = activeTerminalId}) = 1
          /\ disposeCalls[activeTerminalId] = 0
          /\ disposeTimers[activeTerminalId] = 0

\* the active tab has been closed while two others were open
C6_ClosedActive ==
    /\ lastOp.op = "closeTerminal"
    /\ lastOp.was = lastOp.id
    /\ Len(terminals) = 2

\* the tab created last among the open ones: ids grow with the creation time
NewestOpen == CHOOSE id \in OpenIds : \A other \in OpenIds : other <= id
OldestOpen == CHOOSE id \in OpenIds : \A other \in OpenIds : id <= other

\* the last step was closeTerminal on a tab that was open
ClosedOpenTab == lastOp.op = "closeTerminal" /\ Len(writes) = 1

\* C7, as claimed: closing the active tab activates the most recently created of
\* the remaining tabs, or none; closing another tab leaves the active one.
C7_CloseActivatesNewest ==
    ClosedOpenTab =>
        IF lastOp.was = lastOp.id
        THEN activeTerminalId = (IF OpenIds = {} THEN NoTab ELSE NewestOpen)
        ELSE activeTerminalId = lastOp.was

\* C7, amended: closing the active tab activates the first of the remaining tabs
\* in tab order, the earliest created one, or none; closing another tab leaves the
\* active one.
C7_CloseActivatesFirst ==
    ClosedOpenTab =>
        IF lastOp.was = lastOp.id
        THEN activeTerminalId = (IF OpenIds = {} THEN NoTab ELSE OldestOpen)
        ELSE activeTerminalId = lastOp.was

\* the active tab, the newest of three, has been closed
C7_ClosedNewestActive ==
    /\ ClosedOpenTab
    /\ lastOp.was = lastOp.id
    /\ Len(terminals) = 2
    /\ \A id \in OpenIds : id < lastOp.id

Creates == {"createTerminal", "mountEffect"}

\* C8, as claimed: createTerminal activates the new tab only if none was active.
C8_CreateActivatesIfNone ==
    lastOp.op \in Creates =>
        activeTerminalId = (IF lastOp.was = NoTab THEN lastOp.id ELSE lastOp.was)

\* C8, amended: createTerminal always makes the new tab the active one, whether
\* or not a tab was active before.
C8_CreateActivatesAlways ==
    lastOp.op \in Creates =>
        /\ activeTerminalId = lastOp.id
        /\ lastOp.id \in OpenIds
        /\ lastOp.id = nextTab - 1

\* a tab has been created while another one was active
C8_CreatedBesideActive ==
    lastOp.op \in Creates /\ lastOp.was # NoTab /\ lastOp.was \in OpenIds

\* C9: a tab that is closed has exactly one disposal of its display, done or
\* armed, and one closing notice; an open tab has none; and a close request for a
\* tab that is not open writes nothing, arms nothing and leaves the tabs and the
\* active tab as they are.
C9_DisposedOnce ==
    /\ [](\A tabId \in Created :
            /\ disposeCalls[tabId] + disposeTimers[tabId]
                  = (IF tabId \in OpenIds THEN 0 ELSE 1)
            /\ notices[tabId] = (IF tabId \in OpenIds THEN 0 ELSE 1))
    /\ [][(lastOp'.op = "closeTerminal" /\ lastOp'.id \notin OpenIds) =>
             /\ writes' = <<>>
             /\ UNCHANGED <<terminals, activeTerminalId, disposeTimers, disposeCalls,
                            notices>>]_vars

\* a tab whose disposal is armed has been asked to close again
C9_ClosedAgain ==
    /\ lastOp.op = "closeTerminal"
    /\ writes = <<>>
    /\ disposeTimers[lastOp.id] = 1

\* C10: closeAll takes each open tab down the path of closeTerminal: the closing
\* notice is written and the disposal is armed, not done in the same step.
C10_CloseAllDefersDisposal ==
    lastOp.op = "closeAllTerminals" =>
        \A i \in 1..Len(writes) :
            /\ writes[i].k = "closing"
            /\ disposeCalls[writes[i].id] = 0
            /\ disposeTimers[writes[i].id] = 1

\* the steps of one session: its keys, its timers, its dispatch completions
SessionOps ==
    {"Input", "Enter", "CtrlC", "ctrlCTimer", "CtrlL", "CtrlW", "CtrlK", "Backspace",
     "ArrowUp", "ArrowDown", "Tab", "resolve", "stream", "reject"}

\* the directory the tab list shows for a tab
ListedDirectory(tabs, tabId) ==
    {tabs[i].currentDirectory : i \in {j \in 1..Len(tabs) : tabs[j].id = tabId}}

\* what the history builtin of a tab would print
HistoryPrinted(tabId) ==
    ExecuteWrites(tabId, sHistory, tabDir[tabId], closureHistory[tabId])

\* C11: a key, a submission or a dispatch completion of session A leaves the
\* line, the cursor, the history cursor, the working directory (of the editor
\* and of the tab list), the history and what the history builtin would print
\* of every other session B as they were.
C11_SessionsIndependent ==
    [][\A A \in Created, B \in Created :
          (lastOp'.op \in SessionOps /\ lastOp'.id = A /\ B # A) =>
              /\ currentLine'[B] = currentLine[B]
              /\ Cursor(B)' = Cursor(B)
              /\ historyPosition'[B] = historyPosition[B]
              /\ tabDir'[B] = tabDir[B]
              /\ ListedDirectory(terminals', B) = ListedDirectory(terminals, B)
              /\ commandHistory'[B] = commandHistory[B]
              /\ HistoryPrinted(B)' = HistoryPrinted(B)
              /\ pending'[B] = pending[B]]_vars

\* a cd has been submitted in the first session while the second one has a
\* history and a line being typed
C11_CdBesideBusySession ==
    /\ lastOp.op = "Enter"
    /\ lastOp.id = 1
    /\ Dispatch(lastOp.arg) = "cd"
    /\ nextTab > 2
    /\ commandHistory[2] # <<>>
    /\ currentLine[2] # <<>>

\* the lines of the history builtin among the writes of the last step
HistoryLines == SelectSeq(writes, LAMBDA w : w.k = "historyLine")

\* C12: submitting history prints the entries of the session's own history, the
\* latest first, one line each: min(100, submissions of the session so far, this
\* one included) lines.
C12_HistoryPrintsOwnEntries ==
    (lastOp.op = "Enter" /\ lastOp.arg = sHistory) =>
        /\ Len(HistoryLines) = Min(100, Len(submitted[lastOp.id]))
        /\ \A i \in 1..Len(HistoryLines) :
              /\ HistoryLines[i].id = lastOp.id
              /\ i <= Len(commandHistory[lastOp.id])
              /\ HistoryLines[i].t = commandHistory[lastOp.id][i]

\* history has been submitted and dispatched
C12_HistorySubmitted ==
    lastOp.op = "Enter" /\ lastOp.arg = sHistory /\ lastOp.handed

\* C13: Up moves the history cursor one entry back and loads that entry while
\* historyPosition + 1 < length; otherwise, on an empty history and at the oldest
\* entry, it changes neither the line nor the history cursor; so an Up pressed
\* after the oldest entry was loaded leaves the line at the oldest command and the
\* history cursor at length - 1.
C13_UpStopsAtOldest ==
    [][\A tabId \in Created :
          (lastOp'.op = "ArrowUp" /\ lastOp'.id = tabId) =>
              LET h == commandHistory[tabId]
                  pos == historyPosition[tabId]
              IN  /\ commandHistory'[tabId] = h
                  /\ IF pos + 1 < Len(h)
                     THEN /\ historyPosition'[tabId] = pos + 1
                          /\ currentLine'[tabId] = h[pos + 2]
                     ELSE /\ historyPosition'[tabId] = pos
                          /\ currentLine'[tabId] = currentLine[tabId]
                          /\ writes' = <<>>
                  /\ (h # <<>> /\ pos = Len(h) - 1 /\ currentLine[tabId] = h[Len(h)]) =>
                        /\ currentLine'[tabId] = h[Len(h)]
                        /\ historyPosition'[tabId] = Len(h) - 1]_vars

\* Up has been pressed with the oldest of several entries loaded
C13_UpBeyondOldest ==
    /\ lastOp.op = "ArrowUp"
    /\ writes = <<>>
    /\ Len(commandHistory[lastOp.id]) >= 2
    /\ historyPosition[lastOp.id] = Len(commandHistory[lastOp.id]) - 1
    /\ currentLine[lastOp.id] = commandHistory[lastOp.id][Len(commandHistory[lastOp.id])]
    /\ currentLine[lastOp.id] # commandHistory[lastOp.id][1]

\* C14: Down with the history cursor above 0 moves it one entry forward and loads
\* that entry; at 0 it sets the cursor to -1 and empties the line; at -1 it changes
\* neither the line, typed text included, nor the history cursor.
C14_DownIsNoOpWhenNotBrowsing ==
    [][\A tabId \in Created :
          (lastOp'.op = "ArrowDown" /\ lastOp'.id = tabId) =>
              LET h == commandHistory[tabId]
                  pos == historyPosition[tabId]
              IN  IF pos > 0
                  THEN /\ historyPosition'[tabId] = pos - 1
                       /\ currentLine'[tabId] = h[pos]
                  ELSE IF pos = 0
                  THEN /\ historyPosition'[tabId] = -1
                       /\ currentLine'[tabId] = <<>>
                  ELSE /\ historyPosition'[tabId] = pos
                       /\ currentLine'[tabId] = currentLine[tabId]]_vars

\* Down has been pressed while the history was browsed
C14_DownWhileBrowsing ==
    lastOp.op = "ArrowDown" /\ historyPosition[lastOp.id] >= 0

\* p is a prefix of e, character by character
IsPrefixOf(p, e) == Len(p) <= Len(e) /\ \A i \in 1..Len(p) : e[i] = p[i]

\* the vocabulary entries a prefix matches, in vocabulary order
Matching(p) == SelectSeq(AUTOCOMPLETE_COMMANDS, LAMBDA e : IsPrefixOf(p, e))

\* the texts of the suggestion lines among the writes of the last step
Suggested ==
    LET lines == SelectSeq(writes, LAMBDA w : w.k = "suggestion")
    IN  [i \in 1..Len(lines) |-> lines[i].t]

sGr == <<"g", "r">>
sGrep == <<"g", "r", "e", "p">>
sGrepR == <<"g", "r", "e", "p", " ", "-", "r">>

\* C15: Tab matches the whole line as a case-sensitive prefix against the
\* vocabulary: with one matching entry the line becomes that entry; with several
\* the line stays and one suggestion line per matching entry is written, in
\* vocabulary order; "gr" stays and yields grep, grep -r.
C15_TabCompletesOrLists ==
    lastOp.op = "Tab" =>
        LET p == lastOp.arg
            id == lastOp.id
        IN  /\ Len(Matching(p)) = 1 =>
                  currentLine[id] = Matching(p)[1] /\ Suggested = <<>>
            /\ Len(Matching(p)) > 1 =>
                  currentLine[id] = p /\ Suggested = Matching(p)
            /\ p = sGr => currentLine[id] = sGr /\ Suggested = <<sGrep, sGrepR>>

\* Tab has been pressed on "gr"
C15_TabOnGr == lastOp.op = "Tab" /\ lastOp.arg = sGr /\ Len(Suggested) = 2

\* C16: Tab on a line that matches no vocabulary entry appends two spaces to the
\* line buffer.
C16_TabFallbackInserted ==
    (lastOp.op = "Tab" /\ Matching(lastOp.arg) = <<>>) =>
        currentLine[lastOp.id] = lastOp.arg \o <<" ", " ">>

\* Tab has been pressed on a line that matches nothing
C16_TabOnNoMatch ==
    lastOp.op = "Tab" /\ lastOp.arg # <<>> /\ Matching(lastOp.arg) = <<>>

\* the directory cd is to set: the trimmed path, /workspace when it is empty
CdPath(command) ==
    LET path == Trim(SubSeq(command, 3, Len(command)))
    IN  IF path = <<>> THEN WORKSPACE ELSE path

\* C17: submitting cd <path> sets the working directory of the session to the
\* trimmed path, to /workspace when that is empty, without a call of the Executor;
\* every other submission leaves the directory as it is; and every prompt written
\* shows the directory of its session.
C17_CdSetsDirectory ==
    /\ [](\A i \in 1..Len(writes) :
            writes[i].k = "prompt" => writes[i].t = tabDir[writes[i].id])
    /\ [][\A tabId \in Created :
             (lastOp'.op = "Enter" /\ lastOp'.id = tabId /\ lastOp'.handed) =>
                 IF lastOp'.arg = sCd \/ StartsWith(lastOp'.arg, sCdSp)
                 THEN /\ tabDir'[tabId] = CdPath(lastOp'.arg)
                      /\ ~lastOp'.exec
                 ELSE tabDir'[tabId] = tabDir[tabId]]_vars

\* cd x has been submitted and the directory is x
C17_CdSubmitted ==
    /\ lastOp.op = "Enter"
    /\ lastOp.arg = sCd \o sSpX
    /\ tabDir[lastOp.id] = <<"x">>

\* C20: Ctrl+C empties the line, sets the cursor to 0 and the history cursor to
\* -1, adds no history entry, dispatches nothing, and leaves the session open with
\* its directory.
C20_InterruptResetsEditor ==
    [][\A tabId \in Created :
          (lastOp'.op = "CtrlC" /\ lastOp'.id = tabId) =>
              /\ currentLine'[tabId] = <<>>
              /\ Cursor(tabId)' = 0
              /\ historyPosition'[tabId] = -1
              /\ UNCHANGED <<commandHistory, submitted, history, pending, terminals,
                             activeTerminalId, tabDir, disposeTimers, disposeCalls>>
              /\ ~lastOp'.handed /\ ~lastOp'.exec]_vars

\* Ctrl+C has been pressed while the history was browsed
C20_InterruptedWhileBrowsing ==
    lastOp.op = "CtrlC" /\ historyPosition[lastOp.id] >= 0

\* the tags in their priority, each with the words that select it, and the
\* colour each tag is written in
TagPriority ==
    << [tag |-> "error", words |-> {sError, sFailed}],
       [tag |-> "warning", words |-> {sWarning}],
       [tag |-> "success", words |-> {sSuccess, sDone}],
       [tag |-> "pointer", words |-> {sArrow, sFatArrow}] >>
TagColour ==
    [error |-> "red", warning |-> "yellow", success |-> "green", pointer |-> "cyan",
     plain |-> "plain"]

\* a line has one of the words, whatever its case
HasWord(line, words) == \E w \in words : Includes(ToLowerCase(line), w)

\* the first tag in the priority one of whose words the line has, else plain
TagOf(line) ==
    LET hits == {i \in 1..Len(TagPriority) : HasWord(line, TagPriority[i].words)}
    IN  IF hits = {} THEN "plain"
        ELSE TagPriority[CHOOSE i \in hits : \A j \in hits : i <= j].tag

\* the output lines among the writes of the last step
OutputWrites ==
    SelectSeq(writes, LAMBDA w : w.k \in {"red", "yellow", "green", "cyan", "plain"})

\* C18: every output line is written in the colour of the first tag, in the
\* order error, warning, success, pointer, one of whose words it contains in any
\* case, and plain otherwise; a line with both error and success is an error.
C18_FirstMatchWins ==
    lastOp.op = "resolve" =>
        \A i \in 1..Len(OutputWrites) :
            LET w == OutputWrites[i]
            IN  /\ w.k = TagColour[TagOf(w.t)]
                /\ (HasWord(w.t, {sError}) /\ HasWord(w.t, {sSuccess})) => w.k = "red"

\* an output line with both error and success has been written
C18_ErrorAndSuccessWritten ==
    /\ lastOp.op = "resolve"
    /\ \E i \in 1..Len(OutputWrites) :
          HasWord(OutputWrites[i].t, {sError}) /\ HasWord(OutputWrites[i].t, {sSuccess})

\* an output line with the arrow and done
IsArrowDone(line) == Includes(line, sArrow) /\ HasWord(line, {sDone})

\* C19, as claimed: an output line with the pointer arrow and done is a pointer.
C19_ArrowDoneIsPointer ==
    lastOp.op = "resolve" =>
        \A i \in 1..Len(OutputWrites) :
            IsArrowDone(OutputWrites[i].t) => OutputWrites[i].k = TagColour["pointer"]

\* C19, amended: an output line with the pointer arrow and done is a success,
\* since success is tested before pointer.
C19_ArrowDoneIsSuccess ==
    lastOp.op = "resolve" =>
        \A i \in 1..Len(OutputWrites) :
            IsArrowDone(OutputWrites[i].t) => OutputWrites[i].k = TagColour["success"]

\* the output line that ends with "→ done" has been written
C19_ArrowDoneWritten ==
    /\ lastOp.op = "resolve"
    /\ \E i \in 1..Len(OutputWrites) :
          LET t == OutputWrites[i].t
          IN  Len(t) >= 6 /\ SubSeq(t, Len(t) - 5, Len(t)) = sArrow \o <<" ">> \o sDone

\* C21: Ctrl+W deletes the characters after the last space of the line and keeps
\* the line up to and including that space, or empties a line without a space;
\* the history and the directory stay; "npm install pkg" becomes "npm install ".
C21_CtrlWCutsLastWord ==
    [][\A tabId \in Created :
          (lastOp'.op = "CtrlW" /\ lastOp'.id = tabId) =>
              LET old == currentLine[tabId]
                  new == currentLine'[tabId]
              IN  /\ Len(new) <= Len(old)
                  /\ new = SubSeq(old, 1, Len(new))
                  /\ \A i \in (Len(new) + 1)..Len(old) : old[i] # " "
                  /\ new # <<>> => new[Len(new)] = " "
                  /\ old = sNpm \o sSp \o sInstall \o sSp \o sPkg =>
                        new = sNpm \o sSp \o sInstall \o sSp
                  /\ UNCHANGED <<commandHistory, historyPosition, tabDir, terminals>>]_vars

\* Ctrl+W has cut "npm install pkg" back to "npm install "
C21_CutPkg ==
    /\ lastOp.op = "CtrlW"
    /\ lastOp.arg = sNpm \o sSp \o sInstall \o sSp \o sPkg
    /\ currentLine[lastOp.id] = sNpm \o sSp \o sInstall \o sSp
    /\ writes # <<>>

\* C22: in every state the cursor of each session lies within its line and its
\* history cursor is -1 or the position of an entry of its history.
C22_CursorsInBounds ==
    \A tabId \in Created :
        /\ 0 <= Cursor(tabId)
        /\ Cursor(tabId) <= Len(currentLine[tabId])
        /\ -1 <= historyPosition[tabId]
        /\ historyPosition[tabId] < Len(commandHistory[tabId])
        /\ historyPosition[tabId] >= 0 =>
              historyPosition[tabId] + 1 \in DOMAIN commandHistory[tabId]

\* a command has been submitted with the history cursor on the oldest entry
C22_SubmittedAtOldest ==
    /\ lastOp.op = "Enter"
    /\ lastOp.handed
    /\ historyPosition[lastOp.id] >= 2
    /\ historyPosition[lastOp.id] = Len(submitted[lastOp.id]) - 2

\* the steps in which a remote dispatch goes on or completes
Completions == {"resolve", "stream", "reject"}

\* C23: printable input typed while a remote dispatch of the session is
\* outstanding starts a new line without the command submitted, and the completion
\* of the dispatch leaves what was typed in the line.
C23_TypingSurvivesDispatch ==
    [][\A tabId \in Created :
          /\ (/\ lastOp.op = "Enter" /\ lastOp.exec /\ lastOp.id = tabId
              /\ lastOp'.op = "Input" /\ lastOp'.id = tabId) =>
                 currentLine'[tabId] = lastOp'.arg
          /\ (/\ lastOp.op = "Input" /\ lastOp.id = tabId /\ pending[tabId] # <<>>
              /\ lastOp'.op \in Completions /\ lastOp'.id = tabId) =>
                 currentLine'[tabId] = currentLine[tabId]]_vars

\* printable input has been typed while a remote dispatch was outstanding
C23_TypedWhileDispatching ==
    /\ lastOp.op = "Input"
    /\ pending[lastOp.id] # <<>>
    /\ run[lastOp.id].typed = lastOp.arg

\* the last write of the last step is the prompt of the tab
EndsWithPrompt(tabId) ==
    writes # <<>> /\ writes[Len(writes)] = Prompt(tabId, tabDir[tabId])

\* C24: an Enter on a line that is not blank dispatches it: a builtin returns
\* in the same step, a remote command suspends the handler, and with an Executor
\* that settles the handler eventually returns, writing the prompt; an Enter on
\* a blank line returns at once, with the prompt, no history entry and no dispatch.
C24_EnterSettles ==
    /\ [](lastOp.op = "Enter" =>
              IF lastOp.arg # <<>>
              THEN /\ lastOp.handed
                   /\ lastOp.exec => pending[lastOp.id] # <<>> /\ ~lastOp.done
                   /\ ~lastOp.exec => lastOp.done /\ EndsWithPrompt(lastOp.id)
              ELSE /\ lastOp.done /\ ~lastOp.handed /\ ~lastOp.exec
                   /\ EndsWithPrompt(lastOp.id))
    /\ []((lastOp.op \in Completions /\ lastOp.done) => EndsWithPrompt(lastOp.id))
    /\ [][(lastOp'.op = "Enter" /\ lastOp'.arg = <<>>) =>
              UNCHANGED <<commandHistory, history, submitted, pending>>]_vars
    /\ \A tabId \in 1..MaxTabs :
          (tabId \in Created /\ pending[tabId] # <<>>)
              ~> (tabId \in Created /\ pending[tabId] = <<>>)

\* the paced output of a remote command has ended and its handler has returned
C24_PacedCommandSettled ==
    /\ lastOp.op = "stream"
    /\ lastOp.done
    /\ pending[lastOp.id] = <<>>
    /\ EndsWithPrompt(lastOp.id)

C26_ResizeCoalesced ==
    \A tabId \in Created :
       /\ resizeTimeout[tabId] = 1 => fits[tabId].calls = 0
       /\ (resizeTimeout[tabId] = 0 /\ fits[tabId].events > 0 /\ ContainerLive) =>
             fits[tabId].calls = 1
       /\ ~fits[tabId].disposed

\* a burst of two resize events has ended: the timer of an open session has fired
C26_BurstEnded ==
    \E tabId \in OpenIds :
       /\ lastOp.op = "resizeTimer" /\ lastOp.id = tabId
       /\ fits[tabId].events = MaxBurst
       /\ fits[tabId].calls = MaxBurst + 1
       /\ disposeCalls[tabId] = 0

\* the input events of the line editor and the paste
InputEvents ==
    {"Input", "Backspace", "Tab", "CtrlW", "CtrlK", "CtrlL", "ArrowUp", "ArrowDown",
     "paste"}

\* C27: after every input event (printable input, Backspace, Tab, Ctrl+W,
\* Ctrl+K, Ctrl+L, Up, Down) and after a paste, the input line of a display
\* that showed the line buffer before the event shows the line buffer again.
C27_DisplayShowsBuffer ==
    [][lastOp'.op \in InputEvents =>
          ShownAfter(currentLine[lastOp'.id], writes') = currentLine'[lastOp'.id]]_vars

\* a text has been pasted into an empty line: the display shows it, the buffer is empty
C27_PastedNotBuffered ==
    /\ lastOp.op = "paste"
    /\ lastOp.arg = sLs
    /\ currentLine[lastOp.id] = <<>>
    /\ ShownAfter(<<>>, writes) = sLs

\* the prompts among the writes of a step
PromptsIn(ws) == Cardinality({i \in 1..Len(ws) : ws[i].k = "prompt"})

\* C28: each Enter is followed by exactly one prompt write before the next
\* line: the steps of an Enter handler that has not returned write no
\* prompt, and the step in which it returns writes one, whatever the command.
C28_OnePromptPerEnter ==
    lastOp.op \in {"Enter"} \cup Completions =>
       PromptsIn(writes) = IF lastOp.done THEN 1 ELSE 0

\* help has been submitted: executeCommand and the Enter branch each wrote a prompt
C28_HelpPromptedTwice ==
    /\ lastOp.op = "Enter"
    /\ lastOp.arg = sHelp
    /\ lastOp.done
    /\ PromptsIn(writes) = 2

\* C29: once the display of a session has been disposed no write is issued
\* to it: a dispatch that was in flight when the session was closed and the
\* prompt that Ctrl+C has scheduled write nothing to it when they complete.
C29_NoWriteAfterDispose ==
    [][\A i \in 1..Len(writes') :
          writes'[i].id \in Created => disposeCalls[writes'[i].id] = 0]_vars

\* a dispatch has settled after the display of its session was disposed, and has written
C29_SettledOnDisposed ==
    /\ lastOp.op \in Completions
    /\ lastOp.id \notin OpenIds
    /\ disposeCalls[lastOp.id] > 0
    /\ disposeTimers[lastOp.id] = 0
    /\ \E i \in 1..Len(writes) : writes[i].id = lastOp.id

\* C30: rename changes only the title of the named session, and for any
\* interleaving of rename and cd the directory the session set records for a
\* session is the directory of the prompt of that session.
C30_RenameKeepsSession ==
    /\ [](\A tabId \in OpenIds : ListedDirectory(terminals, tabId) = {tabDir[tabId]})
    /\ [][lastOp'.op = "renameTerminal" =>
             /\ Len(terminals') = Len(terminals)
             /\ \A i \in 1..Len(terminals) :
                   /\ terminals'[i].id = terminals[i].id
                   /\ terminals'[i].currentDirectory = terminals[i].currentDirectory
                   /\ terminals[i].id # lastOp'.id => terminals'[i] = terminals[i]
             /\ UNCHANGED <<activeTerminalId, tabDir, currentLine, commandHistory,
                            historyPosition, pending, history>>]_vars

\* cd x has been submitted in a session renamed before: the prompt shows x,
\* the session set still records /workspace
C30_CdAfterRename ==
    /\ lastOp.op = "Enter"
    /\ lastOp.arg = sCd \o sSpX
    /\ tabDir[lastOp.id] = <<"x">>
    /\ \E i \in 1..Len(terminals) :
          /\ terminals[i].id = lastOp.id
          /\ terminals[i].title = CustomTitle(<<"b">>)
          /\ terminals[i].currentDirectory = WORKSPACE

====
